---- MODULE Spec2Model ----
(***************************************************************************)
(* A model of typeface (src/typeface.go): main's pipeline from the flags   *)
(* to the written file, the ast visitor that collects the methods of the   *)
(* source type, and the template that renders them as an interface.        *)
(*                                                                         *)
(* Strings are sequences of runes (code points).  Where the code indexes a *)
(* string by byte (ts.Name.Name[0]), or an order on strings is byte-wise,  *)
(* the model goes through the UTF-8 encoding.                              *)
(***************************************************************************)
EXTENDS Integers, Sequences, FiniteSets, TLC

VARIABLES
    files,            \* prog.Package(packagePath).Files: the declarations of each file
    opts,             \* the flags, as processFlags returns them
    destOf,           \* the import path generator.PackageOf gives the output directory
    outFile,          \* the file system at opts.OutputFile: <<>> or <<content>>
    pc,               \* main's position
    packagePath,      \* main's packagePath
    destPackagePath,  \* main's destPackagePath
    prog,             \* what cfg.Load loaded
    imports,          \* gen's import aliases: import path -> alias
    methods,          \* v.methods
    pos,              \* how many declarations the walk has visited
    body,             \* gen's buffer after ProcessTemplate: <<>> or <<lines>>
    exitCode,         \* <<>> while running, <<code>> once the process has exited
    stderr,           \* what die printed
    prevOut,          \* the file system at opts.OutputFile when this run started
    edited            \* whether the package was edited since that file was written

vars == <<files, opts, destOf, outFile, pc, packagePath, destPackagePath, prog,
          imports, methods, pos, body, exitCode, stderr, prevOut, edited>>

----------------------------------------------------------------------------
(* Bounds *)

MaxDecls == 2

----------------------------------------------------------------------------
(* Strings *)

\* strings.ToUpper on one rune: ASCII and Latin-1 letters; U+00FF maps to U+0178
ToUpperRune(r) ==
    IF r >= 97 /\ r <= 122 THEN r - 32
    ELSE IF r >= 224 /\ r <= 254 /\ r # 247 THEN r - 32
    ELSE IF r = 255 THEN 376
    ELSE r

\* strings.ToUpper
ToUpper(s) == [i \in 1..Len(s) |-> ToUpperRune(s[i])]

\* the UTF-8 encoding of one rune below U+0800
Utf8Rune(r) ==
    IF r < 128 THEN <<r>>
    ELSE <<192 + (r \div 64), 128 + (r % 64)>>

\* the bytes of a Go string
RECURSIVE Utf8(_)
Utf8(s) == IF s = <<>> THEN <<>> ELSE Utf8Rune(Head(s)) \o Utf8(Tail(s))

\* Go's < on strings: byte-wise lexicographic
BytesLess(a, b) ==
    \E i \in 1..(Len(b)) :
        /\ \A j \in 1..(i - 1) : j <= Len(a) /\ a[j] = b[j]
        /\ \/ i = Len(a) + 1
           \/ i <= Len(a) /\ a[i] < b[i]

StringLess(s, t) == BytesLess(Utf8(s), Utf8(t))

\* strings.Split(s, sep) for a one-rune separator
RECURSIVE SplitFrom(_, _, _)
SplitFrom(s, sep, cur) ==
    IF s = <<>> THEN <<cur>>
    ELSE IF Head(s) = sep THEN <<cur>> \o SplitFrom(Tail(s), sep, <<>>)
    ELSE SplitFrom(Tail(s), sep, Append(cur, Head(s)))

Split(s, sep) == SplitFrom(s, sep, <<>>)

RECURSIVE Concat(_)
Concat(ss) == IF ss = <<>> THEN <<>> ELSE Head(ss) \o Concat(Tail(ss))

\* strings.Join
RECURSIVE Join(_, _)
Join(ss, sep) ==
    IF ss = <<>> THEN <<>>
    ELSE IF Len(ss) = 1 THEN ss[1]
    ELSE ss[1] \o sep \o Join(Tail(ss), sep)

----------------------------------------------------------------------------
(* The input: import paths, identifiers, signatures, declarations *)

SrcPath   == <<103, 46, 99, 47, 115>>    \* "g.c/s", the package of opts.InputFile
DstPath   == <<103, 46, 99, 47, 100>>    \* "g.c/d"
ThirdPath == <<103, 46, 99, 47, 116>>    \* "g.c/t"

TypeW == <<87>>                          \* "W"
TypeO == <<79>>                          \* "O"

NameA  == <<65>>                         \* "A"
NameBa == <<66, 97>>                     \* "Ba"
Namea  == <<97>>                         \* "a"
Name_a == <<95, 97>>                     \* "_a"
NameE  == <<233>>                        \* "e" with an acute accent, U+00E9

Comment1 == <<47, 47, 120>>              \* "//x"
Comment2 == <<47, 47, 121>>              \* "//y"
NoDoc    == <<>>                         \* ts.Doc == nil
Doc1     == <<Comment1>>
Doc2     == <<Comment2, Comment1>>

\* a named type of a package; pkg = <<>> for a predeclared type
TypeRef(pkg, name) == [pkg |-> pkg, name |-> name]

SigNone == [params |-> <<>>, results |-> <<>>]
SigDst  == [params |-> <<TypeRef(DstPath, <<84>>)>>,
            results |-> <<TypeRef(<<>>, <<105, 110, 116>>)>>]
SigMix  == [params |-> <<TypeRef(SrcPath, TypeW), TypeRef(DstPath, <<84>>)>>,
            results |-> <<TypeRef(ThirdPath, <<85>>), TypeRef(SrcPath, TypeO)>>]

\* a method declaration: an *ast.FuncDecl with a receiver.  recvOK: whether
\* gen.ExpressionType finds the receiver's type; sigOK: whether the object of the
\* method's name has a *types.Signature
Method(name, recv, ptr, recvOK, sigOK, doc, sig) ==
    [kind |-> "method", name |-> name, recv |-> recv, ptr |-> ptr,
     recvOK |-> recvOK, sigOK |-> sigOK, doc |-> doc, sig |-> sig]

\* a function declaration: an *ast.FuncDecl without a receiver
Func(name) ==
    [kind |-> "func", name |-> name, recv |-> <<>>, ptr |-> FALSE,
     recvOK |-> TRUE, sigOK |-> TRUE, doc |-> NoDoc, sig |-> SigNone]

\* any other top-level declaration (an *ast.GenDecl)
GenDecl ==
    [kind |-> "gen", name |-> <<>>, recv |-> <<>>, ptr |-> FALSE,
     recvOK |-> TRUE, sigOK |-> TRUE, doc |-> NoDoc, sig |-> SigNone]

\* the declarations the control-flow specification draws from
ControlDecls ==
    {Method(n, t, TRUE, TRUE, TRUE, NoDoc, SigNone) :
        n \in {NameA, NameBa, Namea, Name_a, NameE}, t \in {TypeW, TypeO}}
    \cup {Method(n, t, FALSE, TRUE, TRUE, Doc1, SigNone) :
        n \in {NameA, Namea}, t \in {TypeW}}
    \cup {Method(NameA, TypeO, FALSE, TRUE, TRUE, NoDoc, SigNone)}
    \cup {Method(n, TypeW, TRUE, FALSE, TRUE, NoDoc, SigNone) : n \in {NameBa, Namea}}
    \cup {Method(NameBa, TypeW, TRUE, TRUE, FALSE, NoDoc, SigNone)}
    \cup {Func(NameA), GenDecl}

\* the declarations the rendering specification draws from
RenderDecls ==
    {Method(NameA, TypeW, TRUE, TRUE, TRUE, d, s) :
        d \in {NoDoc, Doc1, Doc2}, s \in {SigNone, SigDst, SigMix}}
    \cup {Method(NameBa, TypeW, FALSE, TRUE, TRUE, d, s) :
        d \in {NoDoc, Doc1, Doc2}, s \in {SigNone, SigDst, SigMix}}
    \cup {Method(NameA, TypeO, TRUE, TRUE, TRUE, Doc2, SigDst),
          Method(Namea, TypeW, TRUE, TRUE, TRUE, Doc1, SigMix)}

\* the declarations the re-run specification draws from
RerunDecls ==
    {Method(n, t, TRUE, TRUE, TRUE, NoDoc, SigNone) :
        n \in {NameA, NameBa, Name_a}, t \in {TypeW, TypeO}}
    \cup {Method(NameA, TypeW, FALSE, TRUE, TRUE, Doc1, SigNone), Func(NameA)}

RECURSIVE SeqsUpTo(_, _)
SeqsUpTo(S, n) ==
    IF n = 0 THEN {<<>>}
    ELSE LET shorter == SeqsUpTo(S, n - 1)
         IN  shorter \cup {Append(q, d) : q \in {r \in shorter : Len(r) = n - 1}, d \in S}

\* Go rejects two methods of one type with one name; such packages are left out
NoDuplicateMethods(ds) ==
    \A i, j \in 1..Len(ds) :
        (i # j /\ ds[i].kind = "method" /\ ds[j].kind = "method"
            /\ ds[i].recv = ds[j].recv) => ds[i].name # ds[j].name

\* the ways to lay a sequence of declarations out in one or two files
Layouts(ds) ==
    {<<ds>>} \cup {<<SubSeq(ds, 1, k), SubSeq(ds, k + 1, Len(ds))>> : k \in 1..(Len(ds) - 1)}

Packages(U) ==
    UNION {Layouts(ds) : ds \in {q \in SeqsUpTo(U, MaxDecls) : NoDuplicateMethods(q)}}

\* the declarations of a package in the order main's loop walks them
Decls(fs) == Concat(fs)

----------------------------------------------------------------------------
(* The visitor *)

\* ts.Name.Name[0] == strings.ToUpper(ts.Name.Name)[0]: a comparison of first bytes
IsPublic(name) == Utf8(name)[1] = Utf8(ToUpper(name))[1]

\* t.String() of the receiver's type: the package's full path, a dot, the type's
\* name, after a star when the receiver is a pointer
ReceiverString(d, path) ==
    (IF d.ptr THEN <<42>> ELSE <<>>) \o path \o <<46>> \o d.recv

\* chunks := strings.Split(t.String(), "."); typeName := chunks[len(chunks)-1]
TypeNameOf(s) ==
    LET chunks == Split(s, 46)
    IN  chunks[Len(chunks)]

\* the condition under which Visit looks at a node at all
IsCandidate(d) == d.kind = "method" /\ IsPublic(d.name)

\* Visit calls die: gen.ExpressionType returned an error
VisitDies(d) == IsCandidate(d) /\ ~d.recvOK

\* Visit stores the method
VisitStores(d, path, sourceStruct) ==
    /\ IsCandidate(d)
    /\ d.recvOK
    /\ TypeNameOf(ReceiverString(d, path)) = sourceStruct
    /\ d.sigOK

\* methodInfo without the Doc field set
methodInfoNoDoc(d) == [Method |-> d.sig, Doc |-> NoDoc]

methodInfo(d) == [Method |-> d.sig, Doc |-> d.doc]

\* v.methods[ts.Name.Name] = methodInfo{...}
Put(m, k, v) == [n \in DOMAIN m \cup {k} |-> IF n = k THEN v ELSE m[n]]

\* v.methods after Visit(d)
VisitMethods(m, d, path, sourceStruct) ==
    IF VisitStores(d, path, sourceStruct) THEN Put(m, d.name, methodInfo(d)) ELSE m

----------------------------------------------------------------------------
(* The template *)

\* the name of a package: the last element of its import path
PkgName(path) ==
    LET elems == Split(path, 47)
    IN  elems[Len(elems)]

\* the qualifier the generator gives go/types: the alias registered for the
\* package, the package's name when none is registered
Qualifier(imps, path) == IF path \in DOMAIN imps THEN imps[path] ELSE PkgName(path)

\* types.TypeString of a named type under that qualifier
TypeString(imps, t) ==
    IF t.pkg = <<>> THEN t.name
    ELSE LET q == Qualifier(imps, t.pkg)
         IN  IF q = <<>> THEN t.name ELSE q \o <<46>> \o t.name

TypeStrings(imps, ts) == [i \in 1..Len(ts) |-> TypeString(imps, ts[i])]

\* {{ signature $methodInfo.Method }}: the parameters in parentheses, then the results
signature(imps, sig) ==
    LET ps == Join(TypeStrings(imps, sig.params), <<44, 32>>)
        rs == Join(TypeStrings(imps, sig.results), <<44, 32>>)
    IN  <<40>> \o ps \o <<41>> \o
        (IF Len(sig.results) = 0 THEN <<>>
         ELSE IF Len(sig.results) = 1 THEN <<32>> \o rs
         ELSE <<32, 40>> \o rs \o <<41>>)

\* a range that visits the keys from the last to the first
RECURSIVE RangeKeysBackwards(_)
RangeKeysBackwards(S) ==
    IF S = {} THEN <<>>
    ELSE LET k == CHOOSE x \in S : \A y \in S \ {x} : StringLess(y, x)
         IN  <<k>> \o RangeKeysBackwards(S \ {k})

\* text/template visits the elements of a map with string keys in sorted key order
RECURSIVE RangeKeys(_)
RangeKeys(S) ==
    IF S = {} THEN <<>>
    ELSE LET k == CHOOSE x \in S : \A y \in S \ {x} : StringLess(x, y)
         IN  <<k>> \o RangeKeys(S \ {k})

\* one iteration of the template's range: the comments of the Doc, one to a line,
\* then the method's name and its signature
MethodLines(imps, name, info) == Append(info.Doc, name \o signature(imps, info.Method))

\* the lines the template puts between the braces of the interface
template(m, imps) ==
    LET keys == RangeKeys(DOMAIN m)
    IN  Concat([i \in 1..Len(keys) |-> MethodLines(imps, keys[i], m[keys[i]])])

----------------------------------------------------------------------------
(* main *)

NotLoaded == [loaded |-> FALSE, src |-> FALSE, dest |-> FALSE, stale |-> FALSE]

\* a file at the output path that no run of this model wrote
StaleFile == [header |-> <<>>, package |-> <<>>, interface |-> <<>>, body |-> <<>>]

\* what gen.WriteToFilename writes: the header, the package clause, the interface
GeneratedFile ==
    [header    |-> <<opts.SourceTypeName, packagePath, destPackagePath, opts.InterfaceName>>,
     package   |-> opts.Package,
     interface |-> opts.InterfaceName,
     body      |-> body[1]]

\* whether a declaration of the package mentions a type of the package at path
UsesPkg(fs, path) ==
    \E i \in 1..Len(Decls(fs)) :
        LET sig == Decls(fs)[i].sig
        IN  \/ \E j \in 1..Len(sig.params) : sig.params[j].pkg = path
            \/ \E j \in 1..Len(sig.results) : sig.results[j].pkg = path

InitWith(U, structs, dests, present) ==
    /\ files \in Packages(U)
    /\ opts \in [SourceTypeName : structs, InterfaceName : {<<73>>}, Package : {<<112>>}]
    /\ destOf \in dests
    /\ outFile \in present
    /\ pc = "stat"
    /\ packagePath = <<>>
    /\ destPackagePath = <<>>
    /\ prog = NotLoaded
    /\ imports = <<>>
    /\ methods = <<>>
    /\ pos = 0
    /\ body = <<>>
    /\ exitCode = <<>>
    /\ stderr = <<>>
    /\ prevOut = outFile
    /\ edited = FALSE

\* die(err)
die(err) ==
    /\ pc' = "exit"
    /\ exitCode' = <<1>>
    /\ stderr' = <<err>>

Error(what) == [err |-> what, type |-> <<>>, pkg |-> <<>>]

\* lines 42-48: os.Stat(packagePath), generator.PackageOf(packagePath)
ResolveInput ==
    /\ pc = "stat"
    /\ \E isPath, ok \in BOOLEAN :
        IF isPath /\ ~ok
        THEN /\ die(Error("PackageOf"))
             /\ UNCHANGED packagePath
        ELSE /\ packagePath' = SrcPath
             /\ pc' = "dest"
             /\ UNCHANGED <<exitCode, stderr>>
    /\ UNCHANGED <<files, opts, destOf, outFile, destPackagePath, prog, imports,
                   methods, pos, body, prevOut, edited>>

\* lines 50-53: generator.PackageOf(filepath.Dir(opts.OutputFile))
ResolveDest ==
    /\ pc = "dest"
    /\ \E ok \in BOOLEAN :
        IF ~ok
        THEN /\ die(Error("PackageOf"))
             /\ UNCHANGED destPackagePath
        ELSE /\ destPackagePath' = destOf
             /\ pc' = "remove"
             /\ UNCHANGED <<exitCode, stderr>>
    /\ UNCHANGED <<files, opts, destOf, outFile, packagePath, prog, imports,
                   methods, pos, body, prevOut, edited>>

\* main without the call of os.Remove
RemoveOutputSkipped ==
    /\ pc = "remove"
    /\ pc' = "load"
    /\ UNCHANGED <<files, opts, destOf, outFile, packagePath, destPackagePath, prog,
                   imports, methods, pos, body, exitCode, stderr, prevOut, edited>>

\* lines 67-71: os.Remove(opts.OutputFile)
RemoveOutput ==
    /\ pc = "remove"
    /\ \E res \in (IF outFile = <<>> THEN {"notexist", "other"} ELSE {"removed", "other"}) :
        IF res = "other"
        THEN /\ die(Error("Remove"))
             /\ UNCHANGED outFile
        ELSE /\ outFile' = <<>>
             /\ pc' = "load"
             /\ UNCHANGED <<exitCode, stderr>>
    /\ UNCHANGED <<files, opts, destOf, packagePath, destPackagePath, prog, imports,
                   methods, pos, body, prevOut, edited>>

\* lines 73-80: cfg.Import(destPackagePath), cfg.Load().  With AllowErrors a
\* package that cannot be found is left out of the program and is no error of Load
Load ==
    /\ pc = "load"
    /\ \E err, srcFound, destFound \in BOOLEAN :
        IF err
        THEN /\ die(Error("Load"))
             /\ UNCHANGED prog
        ELSE /\ destPackagePath = packagePath => destFound = srcFound
             /\ (srcFound /\ UsesPkg(files, destPackagePath)) => destFound
             /\ prog' = [loaded |-> TRUE, src |-> srcFound, dest |-> destFound,
                         stale |-> outFile # <<>>]
             /\ pc' = "setup"
             /\ UNCHANGED <<exitCode, stderr>>
    /\ UNCHANGED <<files, opts, destOf, outFile, packagePath, destPackagePath, imports,
                   methods, pos, body, prevOut, edited>>

\* gen.ImportWithAlias(packagePath, "") in place of line 83
UnqualifiedPackageIsSource == packagePath

\* the package gen.ImportWithAlias(_, "") is called with on line 83
UnqualifiedPackage == destPackagePath

\* lines 82-101: the generator and the visitor
Setup ==
    /\ pc = "setup"
    /\ imports' = [p \in {UnqualifiedPackage} |-> <<>>]
    /\ methods' = <<>>
    /\ pc' = "package"
    /\ UNCHANGED <<files, opts, destOf, outFile, packagePath, destPackagePath, prog,
                   pos, body, exitCode, stderr, prevOut, edited>>

\* whether main finds the program loaded, lines 103-104: pkg != nil
PackageFound == prog.src

\* lines 103-106
CheckPackage ==
    /\ pc = "package"
    /\ IF ~PackageFound
       THEN die([err |-> "unable to load package", type |-> <<>>, pkg |-> packagePath])
       ELSE /\ pc' = "walk"
            /\ UNCHANGED <<exitCode, stderr>>
    /\ UNCHANGED <<files, opts, destOf, outFile, packagePath, destPackagePath, prog,
                   imports, methods, pos, body, prevOut, edited>>

\* lines 108-110 and 126-149: ast.Walk calls Visit on the next declaration
Visit ==
    /\ pc = "walk"
    /\ pos < Len(Decls(files))
    /\ LET d == Decls(files)[pos + 1]
       IN  IF VisitDies(d)
           THEN /\ die(Error("failed to get expression"))
                /\ UNCHANGED <<methods, pos>>
           ELSE /\ methods' = VisitMethods(methods, d, packagePath, opts.SourceTypeName)
                /\ pos' = pos + 1
                /\ UNCHANGED <<pc, exitCode, stderr>>
    /\ UNCHANGED <<files, opts, destOf, outFile, packagePath, destPackagePath, prog,
                   imports, body, prevOut, edited>>

\* a check that no map passes
NoMethodsNever(m) == FALSE

\* line 112: len(v.methods) == 0
NoMethods(m) == DOMAIN m = {}

\* lines 112-114, after the last file
CheckMethods ==
    /\ pc = "walk"
    /\ pos = Len(Decls(files))
    /\ IF NoMethods(methods)
       THEN die([err |-> "not found", type |-> opts.SourceTypeName, pkg |-> packagePath])
       ELSE /\ pc' = "template"
            /\ UNCHANGED <<exitCode, stderr>>
    /\ UNCHANGED <<files, opts, destOf, outFile, packagePath, destPackagePath, prog,
                   imports, methods, pos, body, prevOut, edited>>

\* lines 116-118: gen.ProcessTemplate("", template, v.methods)
ProcessTemplate ==
    /\ pc = "template"
    /\ \E ok \in BOOLEAN :
        IF ~ok
        THEN /\ die(Error("ProcessTemplate"))
             /\ UNCHANGED body
        ELSE /\ body' = <<template(methods, imports)>>
             /\ pc' = "write"
             /\ UNCHANGED <<exitCode, stderr>>
    /\ UNCHANGED <<files, opts, destOf, outFile, packagePath, destPackagePath, prog,
                   imports, methods, pos, prevOut, edited>>

\* lines 120-123: gen.WriteToFilename(opts.OutputFile), then main returns
WriteToFilename ==
    /\ pc = "write"
    /\ \E ok \in BOOLEAN :
        IF ~ok
        THEN /\ die(Error("WriteToFilename"))
             /\ UNCHANGED outFile
        ELSE /\ outFile' = <<GeneratedFile>>
             /\ pc' = "exit"
             /\ exitCode' = <<0>>
             /\ UNCHANGED stderr
    /\ UNCHANGED <<files, opts, destOf, packagePath, destPackagePath, prog, imports,
                   methods, pos, body, prevOut, edited>>

Next ==
    \/ ResolveInput
    \/ ResolveDest
    \/ RemoveOutput
    \/ Load
    \/ Setup
    \/ CheckPackage
    \/ Visit
    \/ CheckMethods
    \/ ProcessTemplate
    \/ WriteToFilename

\* Go's notion of an exported identifier: its first character is an upper-case letter
IsUpperRune(r) == (r >= 65 /\ r <= 90) \/ (r >= 192 /\ r <= 222 /\ r # 215)

GoExported(name) == IsUpperRune(name[1])

\* the declarations of the exported methods of type t among ds
TargetOf(ds, t) ==
    {d \in {ds[i] : i \in 1..Len(ds)} :
        d.kind = "method" /\ d.recv = t /\ GoExported(d.name)}

InsertAt(ds, i, d) == SubSeq(ds, 1, i) \o <<d>> \o SubSeq(ds, i + 1, Len(ds))
RemoveAt(ds, i) == SubSeq(ds, 1, i - 1) \o SubSeq(ds, i + 1, Len(ds))
SwapAt(ds, i) == SubSeq(ds, 1, i - 1) \o <<ds[i + 1], ds[i]>> \o SubSeq(ds, i + 2, Len(ds))

\* the packages one edit away that declare the same exported methods on type t: a
\* declaration added, removed or moved, or the declarations laid out in other files
EditedPackages(fs, t) ==
    LET ds == Decls(fs)
        added   == IF Len(ds) < MaxDecls
                   THEN {InsertAt(ds, i, d) : i \in 0..Len(ds), d \in RerunDecls}
                   ELSE {}
        removed == {RemoveAt(ds, i) : i \in 1..Len(ds)}
        moved   == {SwapAt(ds, i) : i \in 1..(Len(ds) - 1)}
        kept    == {e \in added \cup removed \cup moved \cup {ds} :
                       NoDuplicateMethods(e) /\ TargetOf(e, t) = TargetOf(ds, t)}
    IN  UNION {Layouts(e) : e \in kept} \ {fs}

\* main starts again: a new process, with the same flags, on the file system the
\* last run left
Restart ==
    /\ pc = "exit"
    /\ pc' = "stat"
    /\ packagePath' = <<>>
    /\ destPackagePath' = <<>>
    /\ prog' = NotLoaded
    /\ imports' = <<>>
    /\ methods' = <<>>
    /\ pos' = 0
    /\ body' = <<>>
    /\ exitCode' = <<>>
    /\ stderr' = <<>>
    /\ prevOut' = outFile
    /\ UNCHANGED <<opts, destOf, outFile>>

\* the tool is run again on the unchanged package
Rerun ==
    /\ Restart
    /\ edited' = IF exitCode = <<0>> THEN FALSE ELSE edited
    /\ UNCHANGED files

\* the package is edited, the methods of the source type left alone, and the tool
\* is run again
EditAndRerun ==
    /\ Restart
    /\ files' \in EditedPackages(files, opts.SourceTypeName)
    /\ edited' = TRUE

NextRerun ==
    \/ Next
    \/ Rerun
    \/ EditAndRerun

Init == InitWith(ControlDecls, {TypeW}, {SrcPath, DstPath}, {<<>>, <<StaleFile>>})

Spec == Init /\ [][Next]_vars

InitRender == InitWith(RenderDecls, {TypeW}, {SrcPath, DstPath}, {<<>>})

SpecRender == InitRender /\ [][Next]_vars

InitRerun == InitWith(RerunDecls, {TypeW}, {SrcPath}, {<<>>})

SpecRerun == InitRerun /\ [][NextRerun]_vars

----------------------------------------------------------------------------
(* Properties *)

DeclSet(fs) == {Decls(fs)[i] : i \in 1..Len(Decls(fs))}

\* the exported methods the package declares on the source type
TargetDecls == {d \in DeclSet(files) :
                    d.kind = "method" /\ GoExported(d.name) /\ d.recv = opts.SourceTypeName}

\* the walk has visited every declaration of every file
WalkEnded == prog.src /\ pc \in {"walk", "template", "write", "exit"} /\ pos = Len(Decls(files))

\* the lines of the interface that are the line of method d
LinesOf(d) == {i \in 1..Len(body[1]) : body[1][i] = d.name \o signature(imports, d.sig)}

\* C1: once the walk has ended, every exported method declared on the source type,
\* with a pointer or a value receiver, is a key of v.methods, and the rendered
\* interface holds exactly one line for it.
C1_Completeness ==
    /\ WalkEnded => \A d \in TargetDecls : d.name \in DOMAIN methods
    /\ body # <<>> => \A d \in TargetDecls : Cardinality(LinesOf(d)) = 1

\* C2: every key of v.methods is the name of an exported method (its first character
\* is upper-case) that the package declares on the source type.
C2_Exclusion ==
    \A k \in DOMAIN methods : GoExported(k) /\ \E d \in TargetDecls : d.name = k

\* a declaration of an exported method whose types cannot be resolved: the receiver's
\* type, or the signature of a method of the source type
Unresolved(d) ==
    /\ d.kind = "method"
    /\ GoExported(d.name)
    /\ ~d.recvOK \/ (d.recv = opts.SourceTypeName /\ ~d.sigOK)

\* C9: the walk never goes past an exported method whose receiver type or whose
\* signature cannot be resolved: the run ends there, with a non-zero exit.
C9_ResolutionFailureIsFatal ==
    /\ \A i \in 1..pos : ~Unresolved(Decls(files)[i])
    /\ (pc = "exit" /\ \E d \in DeclSet(files) : Unresolved(d)) => exitCode = <<1>>

\* C7: when cfg.Load has returned and the source package or the destination package
\* is not in the program, the run goes no further than the check of the package: it
\* exits with code 1 and a message, no declaration visited, nothing rendered or written.
C7_PackageNotFound ==
    (prog.loaded /\ (~prog.src \/ ~prog.dest)) =>
        \/ pc \in {"setup", "package"}
        \/ /\ pc = "exit"
           /\ exitCode = <<1>>
           /\ stderr = <<[err |-> "unable to load package", type |-> <<>>, pkg |-> packagePath]>>
           /\ pos = 0
           /\ body = <<>>
           /\ outFile = <<>>

\* C4: the template and the write are reached only with a method in v.methods; a run
\* whose walk ended with none has exited with code 1 and the message that names the
\* type and the package, has rendered nothing, and leaves no file at the output path.
C4_NoMethodsFound ==
    /\ (pc \in {"template", "write"} \/ body # <<>>) => DOMAIN methods # {}
    /\ (pc = "exit" /\ WalkEnded /\ DOMAIN methods = {}) =>
            /\ exitCode = <<1>>
            /\ stderr = <<[err |-> "not found", type |-> opts.SourceTypeName, pkg |-> packagePath]>>
            /\ body = <<>>
            /\ outFile = <<>>

\* a run that found no method of the source type in a package that declares methods
C4_Witness ==
    /\ pc = "exit"
    /\ WalkEnded
    /\ DOMAIN methods = {}
    /\ \E d \in DeclSet(files) : d.kind = "method"
    /\ prevOut # <<>>

\* C10: the program is loaded only when no file is at the output path, none appears
\* before the write, and a run that os.Remove failed (for another reason than the
\* file not existing) has exited with code 1 without loading.
C10_RemoveBeforeLoad ==
    /\ prog.loaded => ~prog.stale
    /\ pc \in {"load", "setup", "package", "walk", "template", "write"} => outFile = <<>>
    /\ (pc = "exit" /\ stderr = <<Error("Remove")>>) => (exitCode = <<1>> /\ ~prog.loaded)
    /\ (pc = "exit" /\ exitCode = <<0>>) => (prog.loaded /\ outFile = <<GeneratedFile>>)

\* a run that started with a file at the output path and has written a new one
C10_Witness ==
    /\ prevOut = <<StaleFile>>
    /\ pc = "exit"
    /\ exitCode = <<0>>
    /\ outFile # prevOut

\* the declaration whose method v.methods holds under the key k
DeclOf(k) == CHOOSE d \in DeclSet(files) :
                 d.kind = "method" /\ d.name = k /\ d.recv = opts.SourceTypeName

\* the rule of the specification: a type of the destination package by its bare name,
\* a type of another package behind that package's name
ExpectedType(t) ==
    IF t.pkg = <<>> \/ t.pkg = destPackagePath
    THEN t.name
    ELSE PkgName(t.pkg) \o <<46>> \o t.name

ExpectedList(ts) == Join([i \in 1..Len(ts) |-> ExpectedType(ts[i])], <<44, 32>>)

ExpectedLine(name, sig) ==
    name \o <<40>> \o ExpectedList(sig.params) \o <<41>> \o
    (IF Len(sig.results) = 0 THEN <<>>
     ELSE IF Len(sig.results) = 1 THEN <<32>> \o ExpectedList(sig.results)
     ELSE <<32, 40>> \o ExpectedList(sig.results) \o <<41>>)

\* C5: in the rendered interface the line of every method names each type of the
\* destination package bare and each type of another package as pkg.Name, whether
\* the destination package is the source package or not.
C5_Qualification ==
    body # <<>> =>
        \A k \in DOMAIN methods :
            \E i \in 1..Len(body[1]) : body[1][i] = ExpectedLine(k, methods[k].Method)

\* a rendered method that takes a type of the source package and one of the
\* destination package and returns a type of a third, the destination being another
\* package than the source
C5_Witness ==
    /\ body # <<>>
    /\ destPackagePath # packagePath
    /\ \E k \in DOMAIN methods : methods[k].Method = SigMix

\* the line of the method with key k, and where it is in the interface
SigLine(k) == k \o signature(imports, methods[k].Method)

IndexOf(k) == CHOOSE i \in 1..Len(body[1]) : body[1][i] = SigLine(k)

RECURSIVE DocLines(_)
DocLines(ks) ==
    IF ks = {} THEN 0
    ELSE LET k == CHOOSE x \in ks : TRUE
         IN  Len(DeclOf(k).doc) + DocLines(ks \ {k})

\* C6: the comment lines of each collected method's declaration stand, in their
\* order, right above that method's line, and the interface holds no other comment
\* line: its lines are one per method and one per comment line of a method.
C6_DocPreservation ==
    body # <<>> =>
        /\ \A k \in DOMAIN methods :
              LET doc == DeclOf(k).doc
              IN  /\ \E i \in 1..Len(body[1]) : body[1][i] = SigLine(k)
                  /\ IndexOf(k) > Len(doc)
                  /\ \A j \in 1..Len(doc) : body[1][IndexOf(k) - Len(doc) + j - 1] = doc[j]
        /\ Len(body[1]) = Cardinality(DOMAIN methods) + DocLines(DOMAIN methods)

\* an interface of two methods, one with two comment lines, one with another comment
C6_Witness ==
    /\ body # <<>>
    /\ \E k1, k2 \in DOMAIN methods :
          /\ k1 # k2
          /\ DeclOf(k1).doc = Doc2
          /\ DeclOf(k2).doc = Doc1

\* the order of method names, written out: a is a proper prefix of b, or the first
\* byte that differs is smaller in a
RECURSIVE NameBefore(_, _)
NameBefore(a, b) ==
    IF b = <<>> THEN FALSE
    ELSE IF a = <<>> THEN TRUE
    ELSE IF Head(a) # Head(b) THEN Head(a) < Head(b)
    ELSE NameBefore(Tail(a), Tail(b))

\* C3: the methods of the interface stand in the order of their names, whatever the
\* order of their declarations, and a run on the package and flags of the run that
\* wrote the file at the output path writes that very file again.
C3_Determinism ==
    /\ body # <<>> =>
          \A k1, k2 \in DOMAIN methods :
              NameBefore(Utf8(k1), Utf8(k2)) => IndexOf(k1) < IndexOf(k2)
    /\ (pc = "exit" /\ exitCode = <<0>> /\ prevOut # <<>> /\ ~edited) => outFile = prevOut

\* a second run has written the file again, for two methods declared against the
\* order of their names
C3_Witness ==
    /\ pc = "exit"
    /\ exitCode = <<0>>
    /\ prevOut # <<>>
    /\ ~edited
    /\ Cardinality(DOMAIN methods) = 2
    /\ \E i, j \in 1..Len(Decls(files)) :
          /\ i < j
          /\ {Decls(files)[i].name, Decls(files)[j].name} = DOMAIN methods
          /\ NameBefore(Utf8(Decls(files)[j].name), Utf8(Decls(files)[i].name))

\* C8: a run after edits that leave the exported methods of the source type alone
\* writes the file the run before the edits wrote.
C8_Independence ==
    (pc = "exit" /\ exitCode = <<0>> /\ prevOut # <<>>) => outFile = prevOut

====
